---- MODULE Spec2Model ----
(***************************************************************************)
(* State-machine model of the MCP screenshot server:                       *)
(*   - Semaphore and BrowserManager   (src/src/browser/browser-manager.ts) *)
(*   - the tool handlers              (src/unnamed/part_003,               *)
(*                                     src/src/tools/html-capture.ts)      *)
(*   - executeScript                  (src/src/browser/script-executor.ts) *)
(* Every await of the code is a point where another request, a browser     *)
(* event or a shutdown may run; the code between two awaits is one action. *)
(***************************************************************************)
EXTENDS Integers, Sequences, FiniteSets, TLC

\* ------------------------------------------------------------------ bounds
\* requests of the specification of the browser manager (Spec)
NumRequests == 3
\* requests that arrive in the specification of the gate (SpecGate) while all
\* permits are held
NumGateArrivals == 2
\* browser launches that may succeed in one run
MaxLaunches == 3
\* BrowserManager.close() calls in one run
MaxCloses == 2
\* statements of a script
MaxScriptLen == 3
\* invocations of close() on one context
MaxCloseCalls == 2
\* statements of a script in the specification with fairness (FairSpecTool)
MaxFairScriptLen == 2
\* requests of the specification of the disconnect listener (FairSpecWatch)
NumWatchRequests == 2
\* requests beyond the number of permits in the specification of acquire()
\* (SpecAcquire), which starts with all permits free
NumAcquireArrivals == 1

\* ------------------------------------------------------- program constants
MAX_CONCURRENT_CONTEXTS == 5
SCRIPT_TIMEOUT == 60000
MAX_WAIT_TIME == 30000

NoBrowser == 0
NoRequest == 0

MaxOf(a, b) == IF a >= b THEN a ELSE b
\* SpecGate: the requests that hold a context when the run starts
GateHolders == 1..MAX_CONCURRENT_CONTEXTS
GateRequests == 1..(MAX_CONCURRENT_CONTEXTS + NumGateArrivals)
\* SpecAcquire: the requests
AcquireRequests == 1..(MAX_CONCURRENT_CONTEXTS + NumAcquireArrivals)
AllRequests ==
    1..MaxOf(NumRequests,
             MAX_CONCURRENT_CONTEXTS + MaxOf(NumGateArrivals, NumAcquireArrivals))
Handles == 1..MaxLaunches

VARIABLES
    permits,      \* Semaphore.permits
    queue,        \* Semaphore.queue: the suspended acquire() calls, oldest first
    browser,      \* BrowserManager.browser (NoBrowser is null)
    lockQueue,    \* the browserLock promise chain: getBrowser() calls, in call order
    launched,     \* number of browsers chromium.launch has returned
    connected,    \* handles whose isConnected() is true
    observed,     \* handles with a 'disconnected' listener registered
    pendingEvt,   \* handles whose 'disconnected' event is emitted, listener not yet run
    closePc,      \* position of a BrowserManager.close() call
    closeTarget,  \* the handle that close() call is closing
    closes,       \* number of close() calls made
    proc,         \* the server process: running, in cleanup() or exited, and why
    pc,           \* position of each request's handler
    hnd,          \* createContext's local browser: the handle getBrowser() returned
    acq,          \* permits the request has been given
    rel,          \* release() calls made on the request's behalf
    waited,       \* requests whose acquire() was suspended
    ctxOpen,      \* requests whose context is created and not yet closed
    tool,         \* the tool the request calls
    scripted,     \* requests whose params.script is given
    script,       \* the statements of the request's script
    ip,           \* the statement the script is at
    elapsed,      \* milliseconds since executeScript started the script
    captures,     \* captures that screenshot() and html() made in the script run
    outcome,      \* how the request ended
    held,         \* the values a script has got hold of
    fsys,         \* a request's output path: as received, validated, written
    nav,          \* a request's url: as received, validated, and the urls navigated to
    swallowed,    \* the getBrowser() calls that caught an error of the stale handle's close()
    shot,         \* a screenshot_capture request's format and quality, and the capture's options
    disk          \* the requests for which a directory was created, a file was written

vars == <<permits, queue, browser, lockQueue, launched, connected, observed,
          pendingEvt, closePc, closeTarget, closes, proc, pc, hnd, acq, rel, waited,
          ctxOpen, tool, scripted, script, ip, elapsed, captures, outcome, held, fsys, nav, swallowed, shot, disk>>

gateVars == <<permits, queue>>
mgrVars == <<browser, lockQueue>>
envVars == <<launched, connected, observed, pendingEvt>>
closeVars == <<closePc, closeTarget, closes, proc>>
countVars == <<acq, rel>>
inputVars == <<tool, scripted, script>>
runVars == <<ip, elapsed, captures>>
reqVars ==
    <<pc, hnd, acq, rel, waited, ctxOpen, tool, scripted, script, ip, elapsed, captures,
      outcome>>

\* ----------------------------------------------------------------- inputs
Tools == {"screenshot_capture", "screenshot_element", "html_capture", "html_element"}

\* the tools that take params.script
ScriptTools == {"screenshot_capture", "html_capture"}

\* the capture kind the tool's handler accepts from executeScript
expects(t) ==
    IF t \in {"screenshot_capture", "screenshot_element"} THEN "screenshot" ELSE "html"

\* A script is a sequence of statements:
\*   busy       synchronous computation that takes ms milliseconds
\*   wait       await wait(ms) or await page.waitForTimeout(ms)
\*   pageOp     await of another page operation, which settles after ms
\*   pending    await of a promise that never settles
\*   throw      a statement that throws
\*   screenshot await screenshot()
\*   html       await html()
\*   swallow    try { await screenshot() } catch (e) {}
\*   floating   screenshot() without await: the script runs on, the promise
\*              that screenshot() returned rejects later and nobody handles it
\*   evalThrows await page.evaluate(() => { throw new Error('Script execution
\*              timed out') }), which rejects
Statements ==
    {[op |-> "busy", ms |-> m] : m \in {1000, 61000}}
        \cup {[op |-> "wait", ms |-> m] : m \in {1000, 45000}}
        \cup {[op |-> "pageOp", ms |-> m] : m \in {1000, 70000}}
        \cup {[op |-> o, ms |-> 0] :
                 o \in {"pending", "throw", "screenshot", "html", "swallow", "floating",
                        "evalThrows"}}

Scripts == UNION {[1..n -> Statements] : n \in 0..MaxScriptLen}

FairScripts == UNION {[1..n -> Statements] : n \in 0..MaxFairScriptLen}

\* handleShot: await (await page.waitForSelector(s)).screenshot({ path }), a
\* capture to a file by the element handle that the page proxy returns
DiskStatements == Statements \cup {[op |-> "handleShot", ms |-> 0]}
DiskScripts == UNION {[1..n -> DiskStatements] : n \in 0..MaxFairScriptLen}

NoScript == <<>>

\* paths and urls are strings, modelled as the sequences of their characters
\* (paths) or by their scheme (urls)
MaxPathLen == 4
Chars == {"/", ".", "p", "x"}
Paths == UNION {[1..n -> Chars] : n \in 0..MaxPathLen}

\* context.projectRoot, and process.cwd()
Roots == {<<"/", "p">>, <<"/", "p", "/">>, <<"p">>}
Cwd == <<"/", "x">>

\* the capture of a screenshot_capture request without script: params.format
\* and params.quality ("none" and 0 when absent), config.defaultFormat and
\* config.defaultQuality, the screenshotOptions (quality 0: no quality
\* property), the error of the capture
Formats == {"png", "jpeg", "webp"}
Qualities == {1, 80, 100}
NoShot ==
    [phase |-> "none", format |-> "none", quality |-> 0, defaultFormat |-> "png",
     defaultQuality |-> 80, options |-> [type |-> "none", quality |-> 0], error |-> ""]

\* no directory created and no file written
NoWrites == [dirs |-> {}, files |-> {}, others |-> {}]

NoPath ==
    [phase |-> "none", outputPath |-> <<>>, projectRoot |-> <<>>, fullPath |-> <<>>,
     error |-> "", written |-> {}]
\* a url string: the scheme it is written with ("" when it has none) and
\* whether the rest is one that the URL parser accepts
MaxGotos == 2
Schemes == {"http", "https", "HTTP", "file", "data", ""}
Urls == [scheme : Schemes, wellFormed : BOOLEAN]

NoUrl ==
    [phase |-> "none", url |-> [scheme |-> "", wellFormed |-> FALSE], scripted |-> FALSE,
     error |-> "", gotos |-> <<>>, visited |-> {}]

\* ------------------------------------------------------------------- Init
Init ==
    /\ permits = MAX_CONCURRENT_CONTEXTS
    /\ queue = <<>>
    /\ browser = NoBrowser
    /\ lockQueue = <<>>
    /\ launched = 0
    /\ connected = {}
    /\ observed = {}
    /\ pendingEvt = {}
    /\ closePc = "idle"
    /\ closeTarget = NoBrowser
    /\ closes = 0
    /\ proc = [pc |-> "running", reason |-> "none"]
    /\ pc = [r \in AllRequests |-> "idle"]
    /\ acq = [r \in AllRequests |-> 0]
    /\ ctxOpen = {}
    /\ tool = [r \in AllRequests |-> "none"]
    /\ hnd = [r \in AllRequests |-> NoBrowser]
    /\ rel = [r \in AllRequests |-> 0]
    /\ waited = {}
    /\ scripted = {}
    /\ script = [r \in AllRequests |-> NoScript]
    /\ ip = [r \in AllRequests |-> 0]
    /\ elapsed = [r \in AllRequests |-> 0]
    /\ captures = [r \in AllRequests |-> 0]
    /\ outcome = [r \in AllRequests |-> "none"]
    /\ held = {}
    /\ fsys = NoPath
    /\ nav = NoUrl
    /\ swallowed = {}
    /\ shot = NoShot
    /\ disk = NoWrites

\* SpecGate starts in a state the manager reaches from Init when the requests
\* of GateHolders (html_element calls) arrive one after the other: the browser
\* is launched and each of them holds a permit and an open context, has its
\* capture and has called context.close() in its finally block
InitGate ==
    /\ permits = MAX_CONCURRENT_CONTEXTS - Cardinality(GateHolders)
    /\ queue = <<>>
    /\ browser = 1
    /\ lockQueue = <<>>
    /\ launched = 1
    /\ connected = {1}
    /\ observed = {1}
    /\ pendingEvt = {}
    /\ closePc = "idle"
    /\ closeTarget = NoBrowser
    /\ closes = 0
    /\ proc = [pc |-> "running", reason |-> "none"]
    /\ pc = [r \in AllRequests |-> IF r \in GateHolders THEN "closing" ELSE "idle"]
    /\ acq = [r \in AllRequests |-> IF r \in GateHolders THEN 1 ELSE 0]
    /\ ctxOpen = GateHolders
    /\ tool = [r \in AllRequests |-> IF r \in GateHolders THEN "html_element" ELSE "none"]
    /\ hnd = [r \in AllRequests |-> NoBrowser]
    /\ rel = [r \in AllRequests |-> 0]
    /\ waited = {}
    /\ scripted = {}
    /\ script = [r \in AllRequests |-> NoScript]
    /\ ip = [r \in AllRequests |-> 0]
    /\ elapsed = [r \in AllRequests |-> 0]
    /\ captures = [r \in AllRequests |-> 0]
    /\ outcome = [r \in AllRequests |-> IF r \in GateHolders THEN "ok" ELSE "none"]
    /\ held = {}
    /\ fsys = NoPath
    /\ nav = NoUrl
    /\ swallowed = {}
    /\ shot = NoShot
    /\ disk = NoWrites

\* -------------------------------------------------------------- Semaphore
\* (mutant of acquireNow: the comparison is off by one)
acquireAtZero == permits >= 0

\* acquire(): a permit is taken at once when one is available
acquireNow == permits > 0

\* (mutant of enqueue: unshift instead of push)
enqueueFirst(q, r) == <<r>> \o q

\* acquire() of a suspended caller: the resolve callback is pushed on the queue
enqueue(q, r) == Append(q, r)

\* (mutant of next: release() resumes nobody)
nextNobody == NoRequest

\* release(): the waiter that is resumed (NoRequest when nobody waits)
next == IF queue # <<>> THEN Head(queue) ELSE NoRequest

\* release(): queue.shift()
shift(q) == IF q # <<>> THEN Tail(q) ELSE q

\* (mutant of releasedPermits: the count is incremented whoever waits)
releasedPermitsAlways == permits + 1

\* release(): the permit count after the call
releasedPermits == IF next # NoRequest THEN permits ELSE permits + 1

\* release() called on behalf of request r, whose handler ends: the resumed
\* waiter holds the permit and continues createContext after its await
release(r) ==
    /\ permits' = releasedPermits
    /\ queue' = shift(queue)
    /\ rel' = [rel EXCEPT ![r] = @ + 1]
    /\ IF next # NoRequest
         THEN /\ pc' = [pc EXCEPT ![r] = "done", ![next] = "getBrowser"]
              /\ acq' = [acq EXCEPT ![next] = @ + 1]
         ELSE /\ pc' = [pc EXCEPT ![r] = "done"]
              /\ acq' = acq

\* ------------------------------------------------------------- event loop
\* a continuation that is ready to run: the code after an await of a promise
\* that is already resolved (acquire() that returned, the wake-up by release(),
\* a free browserLock)
MicrotaskPending ==
    \E r \in AllRequests :
        \/ pc[r] = "getBrowser"
        \/ pc[r] = "waitLock" /\ lockQueue # <<>> /\ Head(lockQueue) = r

\* the event loop runs the next callback (a request, an I/O completion, a
\* browser event, a signal) only when no continuation is ready; nothing runs
\* after process.exit
EventLoopTurn == ~MicrotaskPending /\ proc.pc # "exited"

\* requests arrive in the order of their numbers: they are interchangeable
\* before they start
Arrives(r) == pc[r] = "idle" /\ (IF r = 1 THEN TRUE ELSE pc[r - 1] # "idle")

\* --------------------------------------------------------- BrowserManager
\* (mutant of isBrowserHealthy: isConnected() is not asked)
isBrowserPresent == browser # NoBrowser

isBrowserHealthy == browser # NoBrowser /\ browser \in connected

\* (mutant of Request: createContext goes on to getBrowser without acquire())
RequestNoAcquire(r, t, sc, s) ==
    /\ Arrives(r)
    /\ EventLoopTurn
    /\ tool' = [tool EXCEPT ![r] = t]
    /\ scripted' = IF sc THEN scripted \cup {r} ELSE scripted
    /\ script' = [script EXCEPT ![r] = s]
    /\ pc' = [pc EXCEPT ![r] = "getBrowser"]
    /\ UNCHANGED <<gateVars, mgrVars, envVars, closeVars, hnd, countVars, waited, ctxOpen,
                   runVars, outcome, held, fsys, nav, swallowed, shot, disk>>

\* a tool handler is called with tool t and script s (given when sc); its
\* validation passes; createContext: await this.semaphore.acquire()
Request(r, t, sc, s) ==
    /\ Arrives(r)
    /\ EventLoopTurn
    /\ tool' = [tool EXCEPT ![r] = t]
    /\ scripted' = IF sc THEN scripted \cup {r} ELSE scripted
    /\ script' = [script EXCEPT ![r] = s]
    /\ IF acquireNow
         THEN /\ permits' = permits - 1
              /\ queue' = queue
              /\ acq' = [acq EXCEPT ![r] = @ + 1]
              /\ waited' = waited
              /\ pc' = [pc EXCEPT ![r] = "getBrowser"]
         ELSE /\ permits' = permits
              /\ queue' = enqueue(queue, r)
              /\ acq' = acq
              /\ waited' = waited \cup {r}
              /\ pc' = [pc EXCEPT ![r] = "waitSem"]
    /\ UNCHANGED <<mgrVars, envVars, closeVars, hnd, rel, ctxOpen, runVars, outcome, held, fsys, nav, swallowed, shot, disk>>

\* getBrowser: the caller chains itself behind the current browserLock
GetBrowserCall(r) ==
    /\ pc[r] = "getBrowser"
    /\ proc.pc # "exited"
    /\ lockQueue' = Append(lockQueue, r)
    /\ pc' = [pc EXCEPT ![r] = "waitLock"]
    /\ UNCHANGED <<gateVars, browser, envVars, closeVars, hnd, countVars, waited,
                   ctxOpen, inputVars, runVars, outcome, held, fsys, nav, swallowed, shot, disk>>

\* getBrowser: await currentLock is over; the health check, and the return
\* when the handle is healthy (finally: releaseLock)
EnterRegion(r) ==
    /\ pc[r] = "waitLock"
    /\ proc.pc # "exited"
    /\ lockQueue # <<>> /\ Head(lockQueue) = r
    /\ IF isBrowserHealthy
         THEN /\ hnd' = [hnd EXCEPT ![r] = browser]
              /\ lockQueue' = Tail(lockQueue)
              /\ pc' = [pc EXCEPT ![r] = "newContext"]
         ELSE /\ hnd' = hnd
              /\ lockQueue' = lockQueue
              /\ pc' = [pc EXCEPT ![r] =
                          IF browser # NoBrowser THEN "closeStale" ELSE "launching"]
    /\ UNCHANGED <<gateVars, browser, envVars, closeVars, countVars, waited,
                   ctxOpen, inputVars, runVars, outcome, held, fsys, nav, swallowed, shot, disk>>

\* getBrowser: await this.browser.close() of the stale handle is over (its
\* error is ignored); this.browser = null; chromium.launch is started
StaleCloseDone(r) ==
    /\ pc[r] = "closeStale"
    /\ EventLoopTurn
    /\ browser' = NoBrowser
    /\ pc' = [pc EXCEPT ![r] = "launching"]
    /\ UNCHANGED <<gateVars, lockQueue, envVars, closeVars, hnd, countVars, waited,
                   ctxOpen, inputVars, runVars, outcome, held, fsys, nav, swallowed, shot, disk>>

\* (mutant of StaleCloseFails: the error of the stale handle's close() is
\* thrown to the caller; finally: releaseLock; createContext catches, releases
\* the permit and rethrows)
StaleCloseFailsThrows(r) ==
    /\ pc[r] = "closeStale"
    /\ EventLoopTurn
    /\ lockQueue' = Tail(lockQueue)
    /\ release(r)
    /\ outcome' = [outcome EXCEPT ![r] = "staleClose"]
    /\ UNCHANGED <<browser, envVars, closeVars, hnd, waited, ctxOpen, inputVars, runVars,
                   held, fsys, nav, swallowed, shot, disk>>

\* getBrowser: await this.browser.close() of the stale handle rejected; the
\* empty catch block takes the error; this.browser = null; chromium.launch is
\* started
StaleCloseFails(r) ==
    /\ pc[r] = "closeStale"
    /\ EventLoopTurn
    /\ browser' = NoBrowser
    /\ swallowed' = swallowed \cup {r}
    /\ pc' = [pc EXCEPT ![r] = "launching"]
    /\ UNCHANGED <<gateVars, lockQueue, envVars, closeVars, hnd, countVars, waited,
                   ctxOpen, inputVars, runVars, outcome, held, fsys, nav, shot, disk>>

\* (mutant of LaunchOk: no 'disconnected' listener is registered)
LaunchOkNoListener(r) ==
    /\ pc[r] = "launching"
    /\ EventLoopTurn
    /\ launched < MaxLaunches
    /\ launched' = launched + 1
    /\ connected' = connected \cup {launched + 1}
    /\ browser' = launched + 1
    /\ hnd' = [hnd EXCEPT ![r] = launched + 1]
    /\ lockQueue' = Tail(lockQueue)
    /\ pc' = [pc EXCEPT ![r] = "newContext"]
    /\ UNCHANGED <<gateVars, observed, pendingEvt, closeVars, countVars, waited, ctxOpen,
                   inputVars, runVars, outcome, held, fsys, nav, swallowed, shot, disk>>

\* getBrowser: chromium.launch resolved; the handle is stored, the listener is
\* registered, the handle is returned (finally: releaseLock)
LaunchOk(r) ==
    /\ pc[r] = "launching"
    /\ EventLoopTurn
    /\ launched < MaxLaunches
    /\ launched' = launched + 1
    /\ connected' = connected \cup {launched + 1}
    /\ observed' = observed \cup {launched + 1}
    /\ browser' = launched + 1
    /\ hnd' = [hnd EXCEPT ![r] = launched + 1]
    /\ lockQueue' = Tail(lockQueue)
    /\ pc' = [pc EXCEPT ![r] = "newContext"]
    /\ UNCHANGED <<gateVars, pendingEvt, closeVars, countVars, waited, ctxOpen,
                   inputVars, runVars, outcome, held, fsys, nav, swallowed, shot, disk>>

\* (mutant of LaunchFails: the finally block does not call releaseLock)
LaunchFailsKeepsLock(r) ==
    /\ pc[r] = "launching"
    /\ EventLoopTurn
    /\ release(r)
    /\ outcome' = [outcome EXCEPT ![r] = "launch"]
    /\ UNCHANGED <<mgrVars, envVars, closeVars, hnd, waited, ctxOpen, inputVars, runVars,
                   held, fsys, nav, swallowed, shot, disk>>

\* getBrowser: chromium.launch rejected (finally: releaseLock); createContext
\* catches, releases the permit and rethrows; the handler has no context
LaunchFails(r) ==
    /\ pc[r] = "launching"
    /\ EventLoopTurn
    /\ lockQueue' = Tail(lockQueue)
    /\ release(r)
    /\ outcome' = [outcome EXCEPT ![r] = "launch"]
    /\ UNCHANGED <<browser, envVars, closeVars, hnd, waited, ctxOpen, inputVars, runVars, held, fsys, nav, swallowed, shot, disk>>

\* createContext: browser.newContext resolved; close is wrapped; the context
\* is returned to the handler, which starts newPage. A disconnected browser
\* creates no context.
NewContextOk(r) ==
    /\ pc[r] = "newContext"
    /\ EventLoopTurn
    /\ hnd[r] \in connected
    /\ ctxOpen' = ctxOpen \cup {r}
    /\ hnd' = [hnd EXCEPT ![r] = NoBrowser]
    /\ pc' = [pc EXCEPT ![r] = "page"]
    /\ UNCHANGED <<gateVars, mgrVars, envVars, closeVars, countVars, waited,
                   inputVars, runVars, outcome, held, fsys, nav, swallowed, shot, disk>>

\* (mutant of NewContextFails: the catch block rethrows without release())
NewContextFailsNoRelease(r) ==
    /\ pc[r] = "newContext"
    /\ EventLoopTurn
    /\ hnd' = [hnd EXCEPT ![r] = NoBrowser]
    /\ pc' = [pc EXCEPT ![r] = "done"]
    /\ outcome' = [outcome EXCEPT ![r] = "context"]
    /\ UNCHANGED <<gateVars, mgrVars, envVars, closeVars, countVars, waited, ctxOpen,
                   inputVars, runVars, held, fsys, nav, swallowed, shot, disk>>

\* createContext: browser.newContext rejected; catch: release, rethrow
NewContextFails(r) ==
    /\ pc[r] = "newContext"
    /\ EventLoopTurn
    /\ hnd' = [hnd EXCEPT ![r] = NoBrowser]
    /\ release(r)
    /\ outcome' = [outcome EXCEPT ![r] = "context"]
    /\ UNCHANGED <<mgrVars, envVars, closeVars, waited, ctxOpen, inputVars, runVars, held, fsys, nav, swallowed, shot, disk>>

\* ---------------------------------------------------------- executeScript
Min(a, b) == IF a <= b THEN a ELSE b

\* The synchronous run of script s from statement i, t milliseconds after the
\* start. vm.runInContext's timeout watches the run only while vm holds: inside
\* the runInContext call, that is up to the first await. The run ends at an
\* await, at the end of the script (return), at a throw, or by the vm timeout.
RECURSIVE RunSync(_, _, _, _)
RunSync(s, i, t, vm) ==
    IF i > Len(s) THEN [ip |-> i, elapsed |-> t, end |-> "return"]
    ELSE IF s[i].op = "busy"
      THEN IF vm /\ t + s[i].ms > SCRIPT_TIMEOUT
             THEN [ip |-> i, elapsed |-> SCRIPT_TIMEOUT, end |-> "timeout"]
             ELSE RunSync(s, i + 1, t + s[i].ms, vm)
    ELSE IF s[i].op = "floating" THEN RunSync(s, i + 1, t, vm)
    ELSE IF s[i].op = "throw" THEN [ip |-> i, elapsed |-> t, end |-> "throw"]
    ELSE [ip |-> i, elapsed |-> t, end |-> "await"]

\* error messages, as the sequences of their words
TimedOutText == <<"Script", "execution", "timed", "out">>
message(op) ==
    IF op = "evalThrows"
      THEN <<"page.evaluate:", "Error:", "Script", "execution", "timed", "out">>
      ELSE <<"page.click:", "Timeout", "30000ms", "exceeded.">>

\* String.prototype.includes
includes(m, n) ==
    \E i \in 1..(Len(m) - Len(n) + 1) : SubSeq(m, i, i + Len(n) - 1) = n

\* executeScript's catch, for an Error of the server's realm with message m
\* that is neither ScreenshotTaken nor HtmlCaptured
caught(m) == IF includes(m, TimedOutText) THEN "timeout" ELSE "runtime"

\* (mutant of scriptError: a script that returns is taken for a capture)
scriptErrorReturnOk(end) ==
    CASE end = "return" -> "ok"
      [] end = "timeout" -> "timeout"
      [] end = "throw" -> "runtime"

\* executeScript's catch: the error it throws for the way the script ended
scriptError(end) ==
    CASE end = "return" -> "nocapture"
      [] end = "timeout" -> "timeout"
      [] end = "throw" -> "runtime"

\* (mutant of settleTime: no Math.min)
settleTimeUnclamped(st) == st.ms

\* the time the awaited operation takes: wait and waitForTimeout are clamped
settleTime(st) == IF st.op = "wait" THEN Min(st.ms, MAX_WAIT_TIME) ELSE st.ms

\* (mutant of afterCapture: the handler does not check the kind)
afterCaptureUnchecked(t, k) ==
    IF k = "screenshot" THEN [pc |-> "save", outcome |-> "none"]
    ELSE [pc |-> "closing", outcome |-> "ok"]

\* the handler after executeScript returned a capture of kind k: the kind check
afterCapture(t, k) ==
    IF k # expects(t) THEN [pc |-> "closing", outcome |-> "mismatch"]
    ELSE IF k = "screenshot" THEN [pc |-> "save", outcome |-> "none"]
    ELSE [pc |-> "closing", outcome |-> "ok"]

\* the handler after a synchronous run of the script: executeScript still
\* awaits the script, or throws and finally calls context.close()
afterRun(seg) ==
    IF seg.end = "await" THEN [pc |-> "script", outcome |-> "none"]
    ELSE [pc |-> "closing", outcome |-> scriptError(seg.end)]

\* ----------------------------------------------------------- tool handlers
\* newPage, goto and the waits resolved. With a script: executeScript runs the
\* script inside vm.runInContext up to its first await. Without: the capture
\* is started.
PageReady(r) ==
    /\ pc[r] = "page"
    /\ EventLoopTurn
    /\ IF r \in scripted
         THEN LET seg == RunSync(script[r], 1, 0, TRUE)
              IN  /\ pc' = [pc EXCEPT ![r] = afterRun(seg).pc]
                  /\ outcome' = [outcome EXCEPT ![r] = afterRun(seg).outcome]
                  /\ ip' = [ip EXCEPT ![r] = seg.ip]
                  /\ elapsed' = [elapsed EXCEPT ![r] = seg.elapsed]
                  /\ captures' = [captures EXCEPT ![r] = 0]
         ELSE /\ pc' = [pc EXCEPT ![r] = "capture"]
              /\ UNCHANGED <<outcome, ip, elapsed, captures>>
    /\ UNCHANGED <<gateVars, mgrVars, envVars, closeVars, hnd, countVars, waited,
                   ctxOpen, inputVars, held, fsys, nav, swallowed, shot, disk>>

\* newPage, goto or a wait rejected; finally: context.close() is called
PageFails(r) ==
    /\ pc[r] = "page"
    /\ EventLoopTurn
    /\ pc' = [pc EXCEPT ![r] = "closing"]
    /\ outcome' = [outcome EXCEPT ![r] = "navigation"]
    /\ UNCHANGED <<gateVars, mgrVars, envVars, closeVars, hnd, countVars, waited,
                   ctxOpen, inputVars, runVars, held, fsys, nav, swallowed, shot, disk>>

\* the operation the script awaits settles: a wait or a page operation
\* resolves and the script runs on, unwatched; a capture is taken and its
\* signal ends the script, and executeScript returns the capture
ScriptSettles(r) ==
    /\ pc[r] = "script"
    /\ EventLoopTurn
    /\ LET st == script[r][ip[r]]
           t == elapsed[r] + settleTime(st)
           seg == RunSync(script[r], ip[r] + 1, t, FALSE)
           made == IF st.op \in {"screenshot", "html", "swallow"} THEN 1 ELSE 0
       IN  /\ st.op \notin {"pending", "evalThrows"}
           /\ IF st.op \in {"screenshot", "html"}
                THEN /\ pc' = [pc EXCEPT ![r] = afterCapture(tool[r], st.op).pc]
                     /\ outcome' = [outcome EXCEPT ![r] = afterCapture(tool[r], st.op).outcome]
                     /\ captures' = [captures EXCEPT ![r] = @ + made]
                     /\ UNCHANGED <<ip, elapsed>>
                ELSE /\ pc' = [pc EXCEPT ![r] = afterRun(seg).pc]
                     /\ outcome' = [outcome EXCEPT ![r] = afterRun(seg).outcome]
                     /\ ip' = [ip EXCEPT ![r] = seg.ip]
                     /\ elapsed' = [elapsed EXCEPT ![r] = seg.elapsed]
                     /\ captures' = [captures EXCEPT ![r] = @ + made]
           /\ disk' = IF st.op = "handleShot"
                         THEN [disk EXCEPT !.others = @ \cup {r}]
                         ELSE disk
    /\ UNCHANGED <<gateVars, mgrVars, envVars, closeVars, hnd, countVars, waited,
                   ctxOpen, inputVars, held, fsys, nav, swallowed, shot>>

\* the page operation or the capture the script awaits rejects: the error
\* escapes the script and reaches executeScript's catch
ScriptRejects(r) ==
    /\ pc[r] = "script"
    /\ EventLoopTurn
    /\ script[r][ip[r]].op \in {"pageOp", "screenshot", "html", "evalThrows", "handleShot"}
    /\ pc' = [pc EXCEPT ![r] = "closing"]
    /\ outcome' = [outcome EXCEPT ![r] = caught(message(script[r][ip[r]].op))]
    /\ UNCHANGED <<gateVars, mgrVars, envVars, closeVars, hnd, countVars, waited,
                   ctxOpen, inputVars, runVars, held, fsys, nav, swallowed, shot, disk>>

\* the capture of a request without script resolved
CaptureDone(r) ==
    /\ pc[r] = "capture"
    /\ EventLoopTurn
    /\ pc' = [pc EXCEPT ![r] = afterCapture(tool[r], expects(tool[r])).pc]
    /\ outcome' = [outcome EXCEPT ![r] = afterCapture(tool[r], expects(tool[r])).outcome]
    /\ UNCHANGED <<gateVars, mgrVars, envVars, closeVars, hnd, countVars, waited,
                   ctxOpen, inputVars, runVars, held, fsys, nav, swallowed, shot, disk>>

\* the capture of a request without script rejected
CaptureFails(r) ==
    /\ pc[r] = "capture"
    /\ EventLoopTurn
    /\ pc' = [pc EXCEPT ![r] = "closing"]
    /\ outcome' = [outcome EXCEPT ![r] = "capture"]
    /\ UNCHANGED <<gateVars, mgrVars, envVars, closeVars, hnd, countVars, waited,
                   ctxOpen, inputVars, runVars, held, fsys, nav, swallowed, shot, disk>>

\* screenshot tools: ensureDirectory, writeFile, getImageMetadata and
\* createPreview resolved; the handler returns its content
SaveDone(r) ==
    /\ pc[r] = "save"
    /\ EventLoopTurn
    /\ pc' = [pc EXCEPT ![r] = "closing"]
    /\ outcome' = [outcome EXCEPT ![r] = "ok"]
    /\ disk' = [disk EXCEPT !.dirs = @ \cup {r}, !.files = @ \cup {r}]
    /\ UNCHANGED <<gateVars, mgrVars, envVars, closeVars, hnd, countVars, waited,
                   ctxOpen, inputVars, runVars, held, fsys, nav, swallowed, shot>>

\* screenshot tools: one of them rejected: ensureDirectory, or writeFile after
\* the directory was created, or one of the others after the file was written
SaveFails(r) ==
    /\ pc[r] = "save"
    /\ EventLoopTurn
    /\ pc' = [pc EXCEPT ![r] = "closing"]
    /\ outcome' = [outcome EXCEPT ![r] = "save"]
    /\ \E d \in {disk, [disk EXCEPT !.dirs = @ \cup {r}],
                  [disk EXCEPT !.dirs = @ \cup {r}, !.files = @ \cup {r}]} : disk' = d
    /\ UNCHANGED <<gateVars, mgrVars, envVars, closeVars, hnd, countVars, waited,
                   ctxOpen, inputVars, runVars, held, fsys, nav, swallowed, shot>>

\* (mutant of ContextCloseFails: the wrapper has no finally block)
ContextCloseFailsNoRelease(r) ==
    /\ pc[r] = "closing"
    /\ EventLoopTurn
    /\ ctxOpen' = ctxOpen \ {r}
    /\ pc' = [pc EXCEPT ![r] = "done"]
    /\ outcome' = [outcome EXCEPT ![r] = "close"]
    /\ UNCHANGED <<gateVars, mgrVars, envVars, closeVars, hnd, countVars, waited,
                   inputVars, runVars, held, fsys, nav, swallowed, shot, disk>>

\* the wrapped close: await originalClose() rejected; finally:
\* this.semaphore.release(); the error leaves close() and, from the handler's
\* finally block, replaces the handler's result
ContextCloseFails(r) ==
    /\ pc[r] = "closing"
    /\ EventLoopTurn
    /\ ctxOpen' = ctxOpen \ {r}
    /\ release(r)
    /\ outcome' = [outcome EXCEPT ![r] = "close"]
    /\ UNCHANGED <<mgrVars, envVars, closeVars, hnd, waited, inputVars, runVars, held, fsys, nav, swallowed, shot, disk>>

\* the wrapped close: await originalClose() resolved; finally:
\* this.semaphore.release()
ContextCloseDone(r) ==
    /\ pc[r] = "closing"
    /\ EventLoopTurn
    /\ ctxOpen' = ctxOpen \ {r}
    /\ release(r)
    /\ UNCHANGED <<mgrVars, envVars, closeVars, hnd, waited, inputVars, runVars, outcome, held, fsys, nav, swallowed, shot, disk>>

\* close() is invoked on a context on which it was invoked before (the handler
\* invoked it in its finally block; the context object is also reachable
\* from the Playwright objects that page operations return to a script): the
\* wrapper awaits originalClose() again and, finally, calls release() again
CloseAgain(r) ==
    /\ pc[r] = "done"
    /\ EventLoopTurn
    /\ outcome[r] \notin {"none", "launch", "context"}
    /\ rel[r] < MaxCloseCalls
    /\ release(r)
    /\ UNCHANGED <<mgrVars, envVars, closeVars, hnd, waited, ctxOpen, inputVars,
                   runVars, outcome, held, fsys, nav, swallowed, shot, disk>>

\* ------------------------------------------------------------ environment
\* a browser disconnects (it crashed or is being closed): isConnected() turns
\* false and the 'disconnected' event is emitted to the registered listener
Disconnect(h) ==
    /\ h \in connected
    /\ EventLoopTurn
    /\ connected' = connected \ {h}
    /\ pendingEvt' = IF h \in observed THEN pendingEvt \cup {h} ELSE pendingEvt
    /\ UNCHANGED <<gateVars, mgrVars, launched, observed, closeVars, pc, hnd,
                   countVars, waited, ctxOpen, inputVars, runVars, outcome, held, fsys, nav, swallowed, shot, disk>>

\* the listener registered in getBrowser runs: this.browser = null
OnDisconnected(h) ==
    /\ h \in pendingEvt
    /\ EventLoopTurn
    /\ pendingEvt' = pendingEvt \ {h}
    /\ browser' = NoBrowser
    /\ UNCHANGED <<gateVars, lockQueue, launched, connected, observed, closeVars,
                   pc, hnd, countVars, waited, ctxOpen, inputVars, runVars, outcome, held, fsys, nav, swallowed, shot, disk>>

\* BrowserManager.close(): when this.browser is set, browser.close() is started
CloseCall ==
    /\ closePc = "idle"
    /\ EventLoopTurn
    /\ closes < MaxCloses
    /\ closes' = closes + 1
    /\ IF browser # NoBrowser
         THEN closePc' = "closing" /\ closeTarget' = browser
         ELSE closePc' = "idle" /\ closeTarget' = closeTarget
    /\ UNCHANGED <<gateVars, mgrVars, envVars, proc, pc, hnd, countVars, waited, ctxOpen,
                   inputVars, runVars, outcome, held, fsys, nav, swallowed, shot, disk>>

\* (mutant of CloseDone: this.browser is not reset)
CloseDoneKeepsHandle ==
    /\ closePc = "closing"
    /\ EventLoopTurn
    /\ closeTarget \notin connected
    /\ closePc' = "idle"
    /\ closeTarget' = NoBrowser
    /\ UNCHANGED <<gateVars, mgrVars, envVars, closes, proc, pc, hnd, countVars, waited,
                   ctxOpen, inputVars, runVars, outcome, held, fsys, nav, swallowed, shot, disk>>

\* BrowserManager.close(): await this.browser.close() is over (resolved, or
\* rejected and the error ignored), which is after the closed browser
\* disconnected; this.browser = null
CloseDone ==
    /\ closePc = "closing"
    /\ EventLoopTurn
    /\ closeTarget \notin connected
    /\ browser' = NoBrowser
    /\ closePc' = "idle"
    /\ closeTarget' = NoBrowser
    /\ UNCHANGED <<gateVars, lockQueue, envVars, closes, proc, pc, hnd, countVars, waited,
                   ctxOpen, inputVars, runVars, outcome, held, fsys, nav, swallowed, shot, disk>>

\* ------------------------------------------------------------- utils/path
\* String.prototype.split('/')
RECURSIVE split(_, _, _)
split(s, i, cur) ==
    IF i > Len(s) THEN <<cur>>
    ELSE IF s[i] = "/" THEN <<cur>> \o split(s, i + 1, <<>>)
    ELSE split(s, i + 1, Append(cur, s[i]))

\* node:path normalizeString, on the segments of a path: empty segments and
\* '.' are dropped, '..' removes the segment before it (and stays when there is
\* none and the path is relative)
RECURSIVE normalizeString(_, _, _)
normalizeString(segs, res, allowAboveRoot) ==
    IF segs = <<>> THEN res
    ELSE IF Head(segs) \in {<<>>, <<".">>}
      THEN normalizeString(Tail(segs), res, allowAboveRoot)
    ELSE IF Head(segs) = <<".", ".">>
      THEN IF res # <<>> /\ res[Len(res)] # <<".", ".">>
             THEN normalizeString(Tail(segs), SubSeq(res, 1, Len(res) - 1), allowAboveRoot)
           ELSE IF allowAboveRoot
             THEN normalizeString(Tail(segs), Append(res, <<".", ".">>), allowAboveRoot)
           ELSE normalizeString(Tail(segs), res, allowAboveRoot)
    ELSE normalizeString(Tail(segs), Append(res, Head(segs)), allowAboveRoot)

\* Array.prototype.join('/')
RECURSIVE joinSegs(_)
joinSegs(segs) ==
    IF segs = <<>> THEN <<>>
    ELSE IF Len(segs) = 1 THEN Head(segs)
    ELSE Head(segs) \o <<"/">> \o joinSegs(Tail(segs))

\* path.isAbsolute (posix)
isAbsolute(p) == Len(p) > 0 /\ p[1] = "/"

\* path.normalize (posix)
normalize(p) ==
    IF Len(p) = 0 THEN <<".">>
    ELSE LET trailingSeparator == p[Len(p)] = "/"
             path == joinSegs(normalizeString(split(p, 1, <<>>), <<>>, ~isAbsolute(p)))
         IN IF Len(path) = 0
              THEN IF isAbsolute(p) THEN <<"/">>
                   ELSE IF trailingSeparator THEN <<".", "/">> ELSE <<".">>
              ELSE (IF isAbsolute(p) THEN <<"/">> ELSE <<>>)
                       \o path \o (IF trailingSeparator THEN <<"/">> ELSE <<>>)

\* path.join (posix) of two strings
join(a, b) ==
    LET parts == SelectSeq(<<a, b>>, LAMBDA x : Len(x) > 0)
    IN IF parts = <<>> THEN <<".">> ELSE normalize(joinSegs(parts))

\* path.resolve (posix) of one string: a relative path is taken from the
\* working directory; the result has no trailing separator
resolve(p) ==
    LET full == IF isAbsolute(p) THEN p
                ELSE IF Len(p) = 0 THEN Cwd ELSE Cwd \o <<"/">> \o p
    IN <<"/">> \o joinSegs(normalizeString(split(full, 1, <<>>), <<>>, FALSE))

\* String.prototype.startsWith
startsWith(s, t) == Len(t) <= Len(s) /\ SubSeq(s, 1, Len(t)) = t

\* validateOutputPath: the resolved path, or the Error it throws
validateOutputPath(outputPath, projectRoot) ==
    LET normalizedOutput == normalize(outputPath)
        normalizedRoot == normalize(projectRoot)
        fullPath == IF isAbsolute(normalizedOutput)
                      THEN normalizedOutput
                      ELSE join(normalizedRoot, normalizedOutput)
        resolvedPath == resolve(fullPath)
        resolvedRoot == resolve(normalizedRoot)
    IN IF includes(normalizedOutput, <<".", ".">>)
         THEN [path |-> <<>>,
               error |-> "Invalid output path: directory traversal not allowed"]
       ELSE IF ~startsWith(resolvedPath, resolvedRoot)
         THEN [path |-> <<>>,
               error |-> "Invalid output path: must be within project root"]
       ELSE [path |-> resolvedPath, error |-> ""]

\* the directories from the file system's root down to p
directories(p) == normalizeString(split(resolve(p), 1, <<>>), <<>>, FALSE)

\* the screenshot tools' handlers: validateOutputPath(params.outputPath,
\* projectRoot) throws, or gives the fullPath that the capture is written to
ValidatePath ==
    /\ fsys.phase = "received"
    /\ LET v == validateOutputPath(fsys.outputPath, fsys.projectRoot)
       IN fsys' = [fsys EXCEPT !.phase = IF v.error = "" THEN "validated" ELSE "rejected",
                               !.fullPath = v.path,
                               !.error = v.error]
    /\ UNCHANGED <<gateVars, mgrVars, envVars, closeVars, reqVars, held, nav, swallowed, shot, disk>>

\* ensureDirectory(fullPath); fs.writeFile(fullPath, screenshotBuffer)
WriteFile ==
    /\ fsys.phase = "validated"
    /\ fsys' = [fsys EXCEPT !.phase = "written", !.written = @ \cup {fsys.fullPath}]
    /\ UNCHANGED <<gateVars, mgrVars, envVars, closeVars, reqVars, held, nav, swallowed, shot, disk>>

\* String.prototype.toLowerCase, on the schemes of Schemes
toLowerCase(x) == IF x = "HTTP" THEN "http" ELSE x

\* new URL(url): a TypeError for a string that does not parse, or the URL
\* with its protocol, which the parser writes in lower case with the colon
URL(u) ==
    IF u.scheme = "" \/ ~u.wellFormed
      THEN [ok |-> FALSE, protocol |-> ""]
      ELSE [ok |-> TRUE, protocol |-> toLowerCase(u.scheme) \o ":"]

\* validateUrl: "" when it returns, or the message of the Error it throws
\* (the url itself, the text after 'Invalid URL: ', is not kept)
validateUrl(u) ==
    IF ~URL(u).ok THEN "Invalid URL: url"
    ELSE IF URL(u).protocol \notin {"http:", "https:"}
      THEN "Invalid URL: only http and https protocols are supported"
    ELSE ""

\* the handlers: validateUrl(params.url) is the first use of the url
ValidateUrl ==
    /\ nav.phase = "received"
    /\ nav' = [nav EXCEPT !.phase = IF validateUrl(nav.url) = "" THEN "validated"
                                                                 ELSE "rejected",
                          !.error = validateUrl(nav.url)]
    /\ UNCHANGED <<gateVars, mgrVars, envVars, closeVars, reqVars, held, fsys, swallowed, shot, disk>>

\* the handlers: await page.goto(params.url, ...)
Goto ==
    /\ nav.phase = "validated"
    /\ nav' = [nav EXCEPT !.phase = "loaded", !.visited = @ \cup {URL(nav.url).protocol}]
    /\ UNCHANGED <<gateVars, mgrVars, envVars, closeVars, reqVars, held, fsys, swallowed, shot, disk>>

\* the script calls page.goto(u): createPageProxy hands u to Playwright's
\* page.goto, which navigates to every url that parses
ScriptGoto(u) ==
    /\ nav.phase = "loaded"
    /\ nav.scripted
    /\ Len(nav.gotos) < MaxGotos
    /\ nav' = [nav EXCEPT !.gotos = Append(@, u),
                          !.visited = IF URL(u).ok THEN @ \cup {URL(u).protocol} ELSE @]
    /\ UNCHANGED <<gateVars, mgrVars, envVars, closeVars, reqVars, held, fsys, swallowed, shot, disk>>

\* ------------------------------------------------------ screenshotOptions
\* a || b on a format ("none": absent) and on a quality (0: absent)
orFormat(a, b) == IF a = "none" THEN b ELSE a
orQuality(a, b) == IF a = 0 THEN b ELSE a

\* screenshot_capture without script: the options given to the capture
screenshotOptions(format, quality) ==
    [type |-> IF format = "webp" THEN "png" ELSE format,
     quality |-> IF format # "png" THEN quality ELSE 0]

\* the handler computes format, quality and screenshotOptions
BuildOptions ==
    /\ shot.phase = "received"
    /\ shot' = [shot EXCEPT
                  !.phase = "options",
                  !.options = screenshotOptions(orFormat(shot.format, shot.defaultFormat),
                                                orQuality(shot.quality, shot.defaultQuality))]
    /\ UNCHANGED <<gateVars, mgrVars, envVars, closeVars, reqVars, held, fsys, nav,
                   swallowed, disk>>

\* page.screenshot(screenshotOptions) / locator.screenshot(screenshotOptions):
\* Playwright takes a quality with type jpeg only and rejects the call
\* otherwise, before anything is captured
unsupported(options) == options.quality # 0 /\ options.type # "jpeg"

\* the capture resolved with a buffer
ShotCaptured ==
    /\ shot.phase = "options"
    /\ ~unsupported(shot.options)
    /\ shot' = [shot EXCEPT !.phase = "captured"]
    /\ UNCHANGED <<gateVars, mgrVars, envVars, closeVars, reqVars, held, fsys, nav,
                   swallowed, disk>>

\* the capture rejected: because of its options, or for another reason (the
\* page crashed, the selector matched nothing)
ShotRejected ==
    /\ shot.phase = "options"
    /\ \E e \in (IF unsupported(shot.options)
                   THEN {"options.quality is unsupported for the png screenshots"}
                   ELSE {"capture failed"}) :
          shot' = [shot EXCEPT !.phase = "rejected", !.error = e]
    /\ UNCHANGED <<gateVars, mgrVars, envVars, closeVars, reqVars, held, fsys, nav,
                   swallowed, disk>>

\* --------------------------------------------------------------- handlers
\* the output paths and the project roots ("" when the root is not provided)
\* that the handlers are called with
CallPaths == {<<"x">>, <<".", ".", "/", "x">>, <<"/", "x">>, <<"/", "p", "/", "x">>}
CallRoots == {<<>>, <<"/", "p">>}
CallUrls ==
    {[scheme |-> "http", wellFormed |-> TRUE], [scheme |-> "file", wellFormed |-> TRUE],
     [scheme |-> "", wellFormed |-> FALSE]}

\* the tools whose handlers take params.outputPath
PathTools == {"screenshot_capture", "screenshot_element"}

\* the first lines of a handler, before getBrowserManager: the check it
\* throws at, or "ok"
validation(t, root, u, o) ==
    IF Len(root) = 0 THEN "projectRoot"
    ELSE IF validateUrl(u) # "" THEN "url"
    ELSE IF t \in PathTools /\ validateOutputPath(o, root).error # "" THEN "outputPath"
    ELSE "ok"

\* (mutant of HandlerCall: the context is asked for before the checks, and a
\* request that fails a check keeps the permit)
HandlerCallChecksLate(r, t, root, u, o) ==
    IF validation(t, root, u, o) = "ok"
      THEN Request(r, t, FALSE, NoScript)
      ELSE /\ Arrives(r)
           /\ EventLoopTurn
           /\ acquireNow
           /\ permits' = permits - 1
           /\ acq' = [acq EXCEPT ![r] = @ + 1]
           /\ tool' = [tool EXCEPT ![r] = t]
           /\ pc' = [pc EXCEPT ![r] = "done"]
           /\ outcome' = [outcome EXCEPT ![r] = validation(t, root, u, o)]
           /\ UNCHANGED <<queue, mgrVars, envVars, closeVars, hnd, rel, waited, ctxOpen,
                          scripted, script, runVars, held, fsys, nav, swallowed, shot, disk>>

\* a tool handler is called with tool t, projectRoot root, params.url u and
\* params.outputPath o, without script: it throws at the first check that
\* fails; when all pass it calls createContext
HandlerCall(r, t, root, u, o) ==
    IF validation(t, root, u, o) = "ok"
      THEN Request(r, t, FALSE, NoScript)
      ELSE /\ Arrives(r)
           /\ EventLoopTurn
           /\ tool' = [tool EXCEPT ![r] = t]
           /\ pc' = [pc EXCEPT ![r] = "done"]
           /\ outcome' = [outcome EXCEPT ![r] = validation(t, root, u, o)]
           /\ UNCHANGED <<gateVars, mgrVars, envVars, closeVars, hnd, countVars, waited,
                          ctxOpen, scripted, script, runVars, held, fsys, nav, swallowed,
                          shot, disk>>

\* ---------------------------------------------------------------- process
\* the script of request r has run a screenshot() call that it did not await
hasFloating(r) ==
    /\ r \in scripted
    /\ pc[r] \in {"script", "save", "closing", "done"}
    /\ \E k \in 1..Len(script[r]) : k < ip[r] /\ script[r][k].op = "floating"

\* the promise of an unawaited screenshot() rejects, with the signal when the
\* capture was made and with the capture's error otherwise (it cannot be made
\* once the context is closed); the rejection is unhandled: the process's
\* 'unhandledRejection' listener calls cleanup(1), which starts
\* closeBrowserManager()
UnhandledRejection(r, why) ==
    /\ proc.pc = "running"
    /\ EventLoopTurn
    /\ closePc = "idle"
    /\ hasFloating(r)
    /\ why \in (IF r \in ctxOpen THEN {"signal", "error"} ELSE {"error"})
    /\ proc' = [pc |-> "cleanup", reason |-> why]
    /\ closes' = closes + 1
    /\ IF browser # NoBrowser
         THEN closePc' = "closing" /\ closeTarget' = browser
         ELSE closePc' = "idle" /\ closeTarget' = closeTarget
    /\ UNCHANGED <<gateVars, mgrVars, envVars, pc, hnd, countVars, waited, ctxOpen,
                   inputVars, runVars, outcome, held, fsys, nav, swallowed, shot, disk>>

\* cleanup: await closeBrowserManager() is over; process.exit(exitCode)
CleanupExit ==
    /\ proc.pc = "cleanup"
    /\ EventLoopTurn
    /\ closePc = "idle"
    /\ proc' = [proc EXCEPT !.pc = "exited"]
    /\ UNCHANGED <<gateVars, mgrVars, envVars, closePc, closeTarget, closes, pc, hnd,
                   countVars, waited, ctxOpen, inputVars, runVars, outcome, held, fsys, nav, swallowed, shot, disk>>

\* --------------------------------------------------------- specifications
\* createContext, up to the context or the error it hands to the handler
CreateContextStep(r) ==
    \/ GetBrowserCall(r)
    \/ EnterRegion(r)
    \/ LaunchOk(r)
    \/ LaunchFails(r)
    \/ NewContextOk(r)
    \/ NewContextFails(r)

\* the handler of a request without script, up to its finally block
CaptureStep(r) ==
    \/ PageReady(r)
    \/ PageFails(r)
    \/ CaptureDone(r)
    \/ CaptureFails(r)
    \/ ContextCloseDone(r)

\* Spec: the browser manager under html_element requests, browser
\* disconnections and a shutdown
Next ==
    \/ \E r \in 1..NumRequests : Request(r, "html_element", FALSE, NoScript)
    \/ \E r \in 1..NumRequests : CreateContextStep(r)
    \/ \E r \in 1..NumRequests : StaleCloseDone(r)
    \/ \E r \in 1..NumRequests : CaptureStep(r)
    \/ \E r \in 1..NumRequests : ContextCloseFails(r)
    \/ \E h \in Handles : Disconnect(h)
    \/ \E h \in Handles : OnDisconnected(h)
    \/ CloseCall
    \/ CloseDone

Spec == Init /\ [][Next]_vars

\* SpecWatch: the browser manager under requests and browser disconnections;
\* the event loop runs every callback that is ready, and every operation of
\* the browser settles
NextWatch ==
    \/ \E r \in 1..NumWatchRequests : Request(r, "html_element", FALSE, NoScript)
    \/ \E r \in 1..NumWatchRequests : CreateContextStep(r)
    \/ \E r \in 1..NumWatchRequests : StaleCloseDone(r)
    \/ \E r \in 1..NumWatchRequests : CaptureStep(r)
    \/ \E h \in Handles : Disconnect(h)
    \/ \E h \in Handles : OnDisconnected(h)

FairSpecWatch == Init /\ [][NextWatch]_vars /\ WF_vars(NextWatch)

\* SpecStale: the same requests and disconnections, with a stale handle whose
\* close() can reject
NextStale ==
    \/ NextWatch
    \/ \E r \in 1..NumWatchRequests : StaleCloseFails(r)

SpecStale == Init /\ [][NextStale]_vars

\* SpecGate: the gate at capacity, with contexts whose disposal resolves
NextGate ==
    \/ \E r \in GateRequests : Request(r, "html_element", FALSE, NoScript)
    \/ \E r \in GateRequests : CreateContextStep(r)
    \/ \E r \in GateRequests : StaleCloseDone(r)
    \/ \E r \in GateRequests : CaptureStep(r)
    \/ \E h \in Handles : Disconnect(h)
    \/ \E h \in Handles : OnDisconnected(h)

SpecGate == InitGate /\ [][NextGate]_vars

\* FairSpecGate: the gate at capacity with a browser that stays connected; the
\* event loop runs every callback that is ready and every operation of the
\* browser settles, so that every context that is created is closed
NextFairGate ==
    \/ \E r \in GateRequests : Request(r, "html_element", FALSE, NoScript)
    \/ \E r \in GateRequests : GetBrowserCall(r)
    \/ \E r \in GateRequests : EnterRegion(r)
    \/ \E r \in GateRequests : NewContextOk(r)
    \/ \E r \in GateRequests : NewContextFails(r)
    \/ \E r \in GateRequests : PageReady(r)
    \/ \E r \in GateRequests : PageFails(r)
    \/ \E r \in GateRequests : CaptureDone(r)
    \/ \E r \in GateRequests : ContextCloseDone(r)

FairSpecGate == InitGate /\ [][NextFairGate]_vars /\ WF_vars(NextFairGate)

\* SpecAcquire: more requests than permits, from the constructor's state, with
\* a browser that stays connected and pages that load and are captured
NextAcquire ==
    \/ \E r \in AcquireRequests : Request(r, "html_element", FALSE, NoScript)
    \/ \E r \in AcquireRequests : CreateContextStep(r)
    \/ \E r \in AcquireRequests : PageReady(r)
    \/ \E r \in AcquireRequests : CaptureDone(r)
    \/ \E r \in AcquireRequests : ContextCloseDone(r)

SpecAcquire == Init /\ [][NextAcquire]_vars

\* SpecReclose: requests whose contexts have close() invoked more than once
NextReclose ==
    \/ \E r \in 1..NumRequests : Request(r, "html_element", FALSE, NoScript)
    \/ \E r \in 1..NumRequests : CreateContextStep(r)
    \/ \E r \in 1..NumRequests : CaptureStep(r)
    \/ \E r \in 1..NumRequests : ContextCloseFails(r)
    \/ \E r \in 1..NumRequests : CloseAgain(r)

SpecReclose == Init /\ [][NextReclose]_vars

\* SpecTool: one request of any tool, with any script
ToolRequests == {1}

ToolStep(S) ==
    \/ \E r \in ToolRequests, t \in Tools : Request(r, t, FALSE, NoScript)
    \/ \E r \in ToolRequests, t \in ScriptTools, s \in S : Request(r, t, TRUE, s)
    \/ \E r \in ToolRequests : CreateContextStep(r)
    \/ \E r \in ToolRequests : CaptureStep(r)
    \/ \E r \in ToolRequests : ContextCloseFails(r)
    \/ \E r \in ToolRequests : ScriptSettles(r)
    \/ \E r \in ToolRequests : ScriptRejects(r)
    \/ \E r \in ToolRequests : SaveDone(r)
    \/ \E r \in ToolRequests : SaveFails(r)

NextTool == ToolStep(Scripts)

SpecTool == Init /\ [][NextTool]_vars

\* FairSpecTool: the same with shorter scripts; every callback that is ready
\* is run, every I/O operation of the browser and of the file system settles
NextFairTool == ToolStep(FairScripts)

FairSpecTool == Init /\ [][NextFairTool]_vars /\ WF_vars(NextFairTool)

\* SpecDisk: one request of any tool, with the scripts that capture to a file
NextDisk == ToolStep(DiskScripts)

SpecDisk == Init /\ [][NextDisk]_vars

\* SpecProcess: one request of any tool with a script, in a process with its
\* 'unhandledRejection' listener
NextProcess ==
    \/ ToolStep(FairScripts)
    \/ \E r \in ToolRequests, why \in {"signal", "error"} : UnhandledRejection(r, why)
    \/ CleanupExit
    \/ CloseDone
    \/ \E h \in Handles : Disconnect(h)
    \/ \E h \in Handles : OnDisconnected(h)

SpecProcess == Init /\ [][NextProcess]_vars

\* SpecHandlers: requests of every tool, with inputs that pass the handler's
\* checks and inputs that do not
NextHandlers ==
    \/ \E r \in 1..NumWatchRequests, t \in Tools, root \in CallRoots, u \in CallUrls,
           o \in CallPaths : HandlerCall(r, t, root, u, o)
    \/ \E r \in 1..NumWatchRequests : CreateContextStep(r)
    \/ \E r \in 1..NumWatchRequests : CaptureStep(r)
    \/ \E r \in 1..NumWatchRequests : SaveDone(r)
    \/ \E r \in 1..NumWatchRequests : SaveFails(r)

SpecHandlers == Init /\ [][NextHandlers]_vars

\* every variable of the manager, the requests and the sandbox at rest
AtRest ==
    /\ permits = MAX_CONCURRENT_CONTEXTS
    /\ queue = <<>>
    /\ browser = NoBrowser
    /\ lockQueue = <<>>
    /\ launched = 0
    /\ connected = {}
    /\ observed = {}
    /\ pendingEvt = {}
    /\ closePc = "idle"
    /\ closeTarget = NoBrowser
    /\ closes = 0
    /\ proc = [pc |-> "running", reason |-> "none"]
    /\ pc = [r \in AllRequests |-> "idle"]
    /\ acq = [r \in AllRequests |-> 0]
    /\ ctxOpen = {}
    /\ tool = [r \in AllRequests |-> "none"]
    /\ hnd = [r \in AllRequests |-> NoBrowser]
    /\ rel = [r \in AllRequests |-> 0]
    /\ waited = {}
    /\ scripted = {}
    /\ script = [r \in AllRequests |-> NoScript]
    /\ ip = [r \in AllRequests |-> 0]
    /\ elapsed = [r \in AllRequests |-> 0]
    /\ captures = [r \in AllRequests |-> 0]
    /\ outcome = [r \in AllRequests |-> "none"]
    /\ held = {}

\* SpecPath: a screenshot request's outputPath, for every path of Paths and
\* project root of Roots
InitPath ==
    /\ AtRest
    /\ nav = NoUrl
    /\ swallowed = {}
    /\ shot = NoShot
    /\ disk = NoWrites
    /\ fsys \in {[NoPath EXCEPT !.phase = "received", !.outputPath = o, !.projectRoot = d] :
                    o \in Paths, d \in Roots}

NextPath == ValidatePath \/ WriteFile

SpecPath == InitPath /\ [][NextPath]_vars

\* SpecUrl: a request's url, for every url of Urls, with and without a script
InitUrl ==
    /\ AtRest
    /\ fsys = NoPath
    /\ swallowed = {}
    /\ shot = NoShot
    /\ disk = NoWrites
    /\ nav \in {[NoUrl EXCEPT !.phase = "received", !.url = u, !.scripted = b] :
                   u \in Urls, b \in BOOLEAN}

NextUrl ==
    \/ ValidateUrl
    \/ Goto
    \/ \E u \in Urls : ScriptGoto(u)

SpecUrl == InitUrl /\ [][NextUrl]_vars

\* SpecShot: the capture of a screenshot_capture request without script, for
\* every format and quality of the request and of the configuration
InitShot ==
    /\ AtRest
    /\ fsys = NoPath
    /\ nav = NoUrl
    /\ swallowed = {}
    /\ disk = NoWrites
    /\ shot \in {[NoShot EXCEPT !.phase = "received", !.format = f, !.quality = q,
                                !.defaultFormat = df, !.defaultQuality = dq] :
                    f \in Formats \cup {"none"}, q \in Qualities \cup {0},
                    df \in Formats, dq \in Qualities}

NextShot == BuildOptions \/ ShotCaptured \/ ShotRejected

SpecShot == InitShot /\ [][NextShot]_vars

\* ------------------------------------------------------------ the sandbox
\* The values of a script run. executeScript builds the objects it binds in
\* the module itself, outside the vm context, so they are objects of the
\* realm of the server.
\* (mutant of Bound: html is bound only for the html tools)
BoundWithoutHtml == {"page", "screenshot", "wait", "console"}

\* the names bound in the context
Bound == {"page", "screenshot", "html", "wait", "console"}

\* functions: the capture operations, wait, and the arrow functions of the
\* page proxy, of the locator proxy and of console
Functions ==
    {"screenshot", "html", "wait", "page.method", "locator.method", "console.method"}

\* objects: the proxies, the signal a capture operation throws, and the
\* Playwright objects that page operations resolve to
Objects ==
    {"page", "page.mouse", "locator", "console", "signal",
     "Response", "ElementHandle", "JSHandle"}

\* what executeScript must keep from the script
Forbidden == {"process", "require", "fs", "net"}

\* the properties the script reads from a value it holds: those the proxies
\* define, and constructor, which every object and function of the server's
\* realm inherits
property(v) ==
    (CASE v = "page" -> {"page.method", "page.mouse"}
       [] v = "page.mouse" -> {"page.method"}
       [] v = "locator" -> {"locator.method"}
       [] v = "console" -> {"console.method"}
       [] v = "signal" -> {"data"}
       [] v = "globalThis" -> {"process"}
       [] v = "process" -> {"require", "data"}
       [] OTHER -> {})
    \cup (IF v \in Functions \cup {"Object"} THEN {"Function"} ELSE {})
    \cup (IF v \in Objects THEN {"Object"} ELSE {})

\* what a call of a function the script holds returns (the value an await of
\* it yields): the proxies forward to the page and the locator; the Function
\* constructor of the server's realm compiles code that runs in that realm
result(f) ==
    CASE f = "page.method" -> {"data", "locator", "Response", "ElementHandle", "JSHandle"}
      [] f = "locator.method" -> {"data", "locator"}
      [] f = "console.method" -> {"data"}
      [] f = "wait" -> {"data"}
      [] f = "Function" -> {"globalThis"}
      [] f = "require" -> {"fs", "net"}
      [] OTHER -> {}

\* what a call throws that the script can catch
thrown(f) == IF f \in {"screenshot", "html"} THEN {"signal"} ELSE {}

\* the script reads a property of a value it holds
GetProperty(v, w) ==
    /\ v \in held
    /\ w \in property(v) \ held
    /\ held' = held \cup {w}
    /\ UNCHANGED <<gateVars, mgrVars, envVars, closeVars, reqVars, fsys, nav, swallowed, shot, disk>>

\* the script calls a function it holds
Call(f, w) ==
    /\ f \in held
    /\ w \in result(f) \ held
    /\ held' = held \cup {w}
    /\ UNCHANGED <<gateVars, mgrVars, envVars, closeVars, reqVars, fsys, nav, swallowed, shot, disk>>

\* the script calls a function it holds inside try/catch
Catch(f, w) ==
    /\ f \in held
    /\ w \in thrown(f) \ held
    /\ held' = held \cup {w}
    /\ UNCHANGED <<gateVars, mgrVars, envVars, closeVars, reqVars, fsys, nav, swallowed, shot, disk>>

Values == Bound \cup Functions \cup Objects \cup Forbidden
              \cup {"data", "Object", "Function", "globalThis"}

\* SpecSandbox: a script, from the names executeScript binds
InitSandbox ==
    /\ permits = MAX_CONCURRENT_CONTEXTS
    /\ queue = <<>>
    /\ browser = NoBrowser
    /\ lockQueue = <<>>
    /\ launched = 0
    /\ connected = {}
    /\ observed = {}
    /\ pendingEvt = {}
    /\ closePc = "idle"
    /\ closeTarget = NoBrowser
    /\ closes = 0
    /\ proc = [pc |-> "running", reason |-> "none"]
    /\ pc = [r \in AllRequests |-> "idle"]
    /\ acq = [r \in AllRequests |-> 0]
    /\ ctxOpen = {}
    /\ tool = [r \in AllRequests |-> "none"]
    /\ hnd = [r \in AllRequests |-> NoBrowser]
    /\ rel = [r \in AllRequests |-> 0]
    /\ waited = {}
    /\ scripted = {}
    /\ script = [r \in AllRequests |-> NoScript]
    /\ ip = [r \in AllRequests |-> 0]
    /\ elapsed = [r \in AllRequests |-> 0]
    /\ captures = [r \in AllRequests |-> 0]
    /\ outcome = [r \in AllRequests |-> "none"]
    /\ held = Bound
    /\ fsys = NoPath
    /\ nav = NoUrl
    /\ swallowed = {}
    /\ shot = NoShot
    /\ disk = NoWrites

NextSandbox ==
    \/ \E v, w \in Values : GetProperty(v, w)
    \/ \E f, w \in Values : Call(f, w)
    \/ \E f, w \in Values : Catch(f, w)

SpecSandbox == InitSandbox /\ [][NextSandbox]_vars

Holders == {r \in AllRequests : acq[r] > rel[r]}

C10_FifoResume ==
    [][\A r \in AllRequests :
          (pc[r] = "waitSem" /\ pc'[r] # "waitSem")
              => \A w \in AllRequests : pc[w] = "waitSem" => r <= w]_vars

\* C10 witness: of two suspended callers the older holds its permit while the
\* younger still waits.
C10_OlderResumed ==
    \E r, w \in waited : r < w /\ acq[r] = 1 /\ pc[w] = "waitSem"

\* C8: getBrowser() never returns a handle that is disconnected; a call that
\* found the handle unhealthy returns a handle launched after that, and a
\* context is only ever created against a connected handle.
C8_NoStaleHandle ==
    [][\A r \in AllRequests :
          /\ (pc[r] \in {"waitLock", "launching"} /\ pc'[r] = "newContext")
                => hnd'[r] \in connected' /\ hnd'[r] = browser'
          /\ (pc[r] = "launching" /\ pc'[r] = "newContext") => hnd'[r] > launched
          /\ (r \notin ctxOpen /\ r \in ctxOpen') => hnd[r] \in connected]_vars

\* C8 witness: handle 1 is disconnected and was still the manager's handle
\* when a getBrowser() call found it; that call returned handle 2.
C8_Replaced ==
    /\ closes = 0
    /\ 1 \in pendingEvt
    /\ \E r \in AllRequests : pc[r] = "newContext" /\ hnd[r] = 2 /\ 2 \in connected

\* C9: at most one browser is live, and the manager holds the reference to it.
C9_OneLiveBrowserReferenced ==
    /\ Cardinality(connected) <= 1
    /\ connected # {} => browser \in connected

\* C7: at most one launch is in flight; while a launched browser stays
\* connected no further launch is made, and the callers hold the same handle.
C7_SingleLaunch ==
    /\ Cardinality({r \in AllRequests : pc[r] = "launching"}) <= 1
    /\ \A r \in AllRequests : pc[r] = "launching" => connected = {}
    /\ \A r, q \in AllRequests :
          (hnd[r] \in connected /\ hnd[q] \in connected) => hnd[r] = hnd[q]

\* C7, the part that holds: at most one launch is in flight.
C7_OneLaunchInFlight ==
    Cardinality({r \in AllRequests : pc[r] \in {"closeStale", "launching"}}) <= 1

\* C2: a request that was given a permit eventually closes its context and
\* releases the permit.
C2_EventuallyReleased ==
    \A r \in ToolRequests : (acq[r] = 1) ~> (rel[r] = 1 /\ r \notin ctxOpen)

\* C4: an executeScript run never hangs: while it awaits the script, the
\* awaited operation can settle or reject, or a deadline can end the run.
C4_NeverHangs ==
    \A r \in ToolRequests :
        pc[r] = "script" => ENABLED (ScriptSettles(r) \/ ScriptRejects(r))

\* C5: a script run that went on for more than SCRIPT_TIMEOUT milliseconds
\* ends with the timeout error.
C5_DeadlineEnforced ==
    \A r \in ToolRequests :
        (pc[r] \in {"save", "closing", "done"} /\ r \in scripted
            /\ elapsed[r] > SCRIPT_TIMEOUT) => outcome[r] = "timeout"

\* C6: whatever a script does with the names bound in its environment and
\* with what they return or throw, it holds no value that gives process
\* control, module loading, the file system or the network.
C6_NoHostCapability == held \cap Forbidden = {}

\* C11: with no release so far the first MAX_CONCURRENT_CONTEXTS acquire()
\* calls complete without suspending, and a later acquire() completes only
\* after one of those first holders called release().
C11_FirstNAtOnce ==
    /\ \A r \in AllRequests :
          (r <= MAX_CONCURRENT_CONTEXTS /\ pc[r] # "idle")
              => (acq[r] = 1 /\ r \notin waited)
    /\ \A r \in AllRequests :
          (r > MAX_CONCURRENT_CONTEXTS /\ acq[r] = 1)
              => \E h \in 1..MAX_CONCURRENT_CONTEXTS : rel[h] = 1
    /\ \A r \in AllRequests :
          (r > MAX_CONCURRENT_CONTEXTS /\ pc[r] # "idle"
              /\ \A h \in AllRequests : rel[h] = 0) => pc[r] = "waitSem"

\* C11 witness: the acquire() after the first MAX_CONCURRENT_CONTEXTS was
\* suspended and has completed.
C11_NextResumed ==
    /\ (MAX_CONCURRENT_CONTEXTS + 1) \in waited
    /\ acq[MAX_CONCURRENT_CONTEXTS + 1] = 1

\* C13: the wrapped close() releases the permit when the disposal throws as
\* when it resolves, not before the disposal attempt is over, and the error of
\* the disposal reaches the caller of close().
C13_ReleaseAfterFailedDisposal ==
    /\ [](\A r \in ToolRequests : pc[r] = "closing" => rel[r] = 0)
    /\ [][\A r \in ToolRequests :
            ContextCloseFails(r)
                => /\ rel'[r] = rel[r] + 1
                   /\ permits' = permits + 1
                   /\ outcome'[r] = "close"]_vars

\* C13 witness: a context whose disposal threw; its permit is back.
C13_DisposalThrew ==
    \E r \in ToolRequests :
        pc[r] = "done" /\ outcome[r] = "close" /\ rel[r] = 1
            /\ permits = MAX_CONCURRENT_CONTEXTS

\* C12: a context's permit is released once however often close() is invoked
\* on it, and the available permits never exceed MAX_CONCURRENT_CONTEXTS.
C12_ReleasedOnce ==
    /\ permits <= MAX_CONCURRENT_CONTEXTS
    /\ \A r \in AllRequests : rel[r] <= acq[r]

\* C14: no browser is launched before the first getBrowser() call; a
\* getBrowser() call returns a handle that is connected when it returns; a
\* launch is started only when the manager has no handle or its handle
\* reports disconnected.
C14_LazyHealthyHandle ==
    /\ []((\A r \in AllRequests : pc[r] \in {"idle", "waitSem", "getBrowser"})
              => launched = 0)
    /\ [][\A r \in AllRequests :
            /\ (pc[r] \in {"waitLock", "launching"} /\ pc'[r] = "newContext")
                  => hnd'[r] \in connected'
            /\ (pc[r] = "waitLock" /\ pc'[r] \in {"closeStale", "launching"})
                  => (browser = NoBrowser \/ browser \notin connected)
            /\ launched' # launched
                  => \E q \in AllRequests : pc[q] = "launching" /\ pc'[q] = "newContext"]_vars

\* C14 witness: a getBrowser() call launched handle 1 and its caller got a
\* context; handle 1 disconnected, and another call launched handle 2 and
\* returns it connected.
C14_FoundAndRelaunched ==
    /\ launched = 2
    /\ 1 \notin connected
    /\ 2 \in connected
    /\ \E r, q \in AllRequests :
          /\ pc[r] = "newContext" /\ hnd[r] = 2
          /\ pc[q] \in {"page", "capture", "closing", "done"}
          /\ outcome[q] \notin {"launch", "context"}

\* C15: a handle has its disconnect listener registered when getBrowser()
\* returns it; when a handle disconnects, the manager's handle becomes absent
\* through the listener, without a getBrowser() call; a getBrowser() call
\* that finds the handle absent launches.
C15_DisconnectObserved ==
    /\ [](\A h \in Handles : h <= launched => h \in observed)
    /\ [][\A h \in Handles :
            (h \in connected /\ h \notin connected') => h \in pendingEvt']_vars
    /\ [][\A r \in AllRequests :
            (pc[r] = "waitLock" /\ pc'[r] # "waitLock" /\ browser = NoBrowser)
                => pc'[r] = "launching"]_vars
    /\ \A h \in Handles : (h \in pendingEvt) ~> (h \notin pendingEvt /\ browser = NoBrowser)

\* C15 witness: handle 1 disconnected, its listener ran and left the manager
\* without handle, and a getBrowser() call launches a replacement.
C15_ReplacedAfterEvent ==
    /\ launched = 1
    /\ 1 \notin connected
    /\ 1 \notin pendingEvt
    /\ browser = NoBrowser
    /\ closes = 0
    /\ \E r \in AllRequests : pc[r] = "launching"

C19_OneCapture == \A r \in ToolRequests : captures[r] <= 1

\* C20: executeScript reports the timeout error only when the deadline has
\* elapsed; any other error that escapes the script is rethrown as it is.
C20_TimeoutOnlyAfterDeadline ==
    \A r \in ToolRequests :
        (pc[r] = "closing" /\ outcome[r] = "timeout") => elapsed[r] >= SCRIPT_TIMEOUT

\* C17: a script that returns normally (without ending in a capture) makes
\* executeScript fail with the error 'Script must call screenshot() or
\* html() to capture content'; no capture result is returned.
C17_NoCaptureError ==
    \A r \in ToolRequests :
        (pc[r] = "closing" /\ r \in scripted /\ ip[r] = Len(script[r]) + 1)
            => outcome[r] = "nocapture"

\* C17 witness: a script of waits and page operations returned.
C17_ReturnedWithoutCapture ==
    \E r \in ToolRequests :
        /\ pc[r] = "closing" /\ r \in scripted
        /\ Len(script[r]) = 2 /\ ip[r] = 3
        /\ \A i \in 1..2 : script[r][i].op \in {"wait", "pageOp"}
        /\ outcome[r] = "nocapture"

\* C18: a capture of the kind the tool does not expect makes the request fail
\* with the mismatch error, and the request's context is closed once.
C18_KindMismatch ==
    /\ [][\A r \in ToolRequests :
            (ScriptSettles(r) /\ script[r][ip[r]].op \in {"screenshot", "html"}
                /\ script[r][ip[r]].op # expects(tool[r]))
                => (outcome'[r] = "mismatch" /\ pc'[r] = "closing")]_vars
    /\ [](\A r \in ToolRequests :
            outcome[r] = "mismatch"
                => \/ pc[r] = "closing" /\ rel[r] = 0 /\ r \in ctxOpen
                   \/ pc[r] = "done" /\ rel[r] = 1 /\ r \notin ctxOpen)

\* C18 witness: html() under screenshot_capture; the request has failed and
\* its context is closed.
C18_HtmlUnderScreenshot ==
    \E r \in ToolRequests :
        /\ tool[r] = "screenshot_capture"
        /\ pc[r] = "done" /\ outcome[r] = "mismatch"
        /\ script[r][ip[r]].op = "html"
        /\ rel[r] = 1

\* the time a script of wait statements is to take: each wait lasts the
\* requested duration, or 30000 ms when more is requested
RECURSIVE ClampedTotal(_)
ClampedTotal(s) ==
    IF s = <<>> THEN 0
    ELSE (IF Head(s).ms > 30000 THEN 30000 ELSE Head(s).ms) + ClampedTotal(Tail(s))

\* C21: wait(ms) and page.waitForTimeout(ms) suspend the script for
\* min(ms, 30000) milliseconds and do not reject: a script of waits that was
\* started returns after the sum of the clamped durations.
C21_WaitClamped ==
    \A r \in ToolRequests :
        (r \in scripted /\ pc[r] \in {"script", "closing"} /\ outcome[r] # "navigation"
            /\ \A i \in 1..Len(script[r]) : script[r][i].op = "wait")
            => /\ elapsed[r] = ClampedTotal(SubSeq(script[r], 1, ip[r] - 1))
               /\ pc[r] = "closing" => (outcome[r] = "nocapture" /\ ip[r] = Len(script[r]) + 1)

\* C21 witness: a wait of 45000 ms and a wait of 1000 ms took 31000 ms.
C21_LongWaitCut ==
    \E r \in ToolRequests :
        /\ r \in scripted /\ pc[r] = "closing"
        /\ Len(script[r]) = 2
        /\ script[r][1] = [op |-> "wait", ms |-> 45000]
        /\ script[r][2] = [op |-> "wait", ms |-> 1000]
        /\ elapsed[r] = 31000

\* C22: a script run starts with exactly the names page, screenshot, html,
\* wait and console, keeps them, and a call of a console method gives the
\* script nothing but undefined.
C22_SuppliedNames ==
    /\ held = {"page", "screenshot", "html", "wait", "console"}
    /\ [](\A n \in {"page", "screenshot", "html", "wait", "console"} : n \in held)
    /\ [][\A w \in Values : Call("console.method", w) => w = "data"]_vars

\* C22 witness: the script has read a method of console and called it.
C22_ConsoleCalled ==
    held = {"page", "screenshot", "html", "wait", "console", "console.method", "data"}

\* C23: no operation of the page proxy or of a locator proxy hands an
\* underlying Playwright object to the script.
C23_NoEngineObject == held \cap {"Response", "ElementHandle", "JSHandle"} = {}

\* C27: the manager's handle is changed only by a getBrowser() call that is
\* inside the serialized region (by its launch or by its reset of the stale
\* handle), and while a call is inside the region by that call only.
C27_MutationInsideRegion ==
    [][/\ browser' # browser
            => \E r \in AllRequests :
                  pc[r] \in {"closeStale", "launching"} /\ pc'[r] # pc[r]
       /\ \A r \in AllRequests :
            (pc[r] \in {"closeStale", "launching"} /\ browser' # browser)
                => pc'[r] # pc[r]]_vars

\* C28: once screenshot() or html() has made its capture the script runs no
\* further, and the run does not end with the 'no capture invoked' error.
C28_CaptureEndsRun ==
    \A r \in ToolRequests :
        captures[r] >= 1 => (pc[r] # "script" /\ outcome[r] # "nocapture")

\* C30: a script is not in flight after its deadline: when SCRIPT_TIMEOUT
\* milliseconds have elapsed the script is aborted and starts no further
\* operation.
C30_AbortedAtDeadline ==
    \A r \in ToolRequests : pc[r] = "script" => elapsed[r] <= SCRIPT_TIMEOUT

\* C24: whatever a request's script does, the server process keeps running
\* and the shared browser is not closed.
C24_ServerSurvives == proc.pc = "running" /\ closePc = "idle" /\ closes = 0

\* C29: the termination signal does not reach the process as an unhandled
\* rejection.
C29_SignalNeverSurfaces == proc.reason # "signal"

\* C25: validateOutputPath returns a path only when the path lies inside the
\* project root: an output path that resolves outside it is rejected with an
\* 'Invalid output path' error and no file is written outside the root.
C25_InsideProjectRoot ==
    /\ fsys.phase \in {"validated", "written"}
           => startsWith(directories(fsys.fullPath), directories(fsys.projectRoot))
    /\ fsys.phase = "rejected"
           => startsWith(fsys.error, "Invalid output path")
    /\ \A f \in fsys.written :
           startsWith(directories(f), directories(fsys.projectRoot))

\* C26: during a request the browser is navigated to http and https urls
\* only, and a url that does not parse or has another scheme is rejected with
\* an 'Invalid URL' error before any navigation.
C26_OnlyHttpNavigated ==
    /\ nav.visited \subseteq {"http:", "https:"}
    /\ nav.phase = "rejected" => (startsWith(nav.error, "Invalid URL") /\ nav.visited = {})

\* C31: release() resumes the oldest waiter and leaves the count as it is
\* when a caller waits, and increments the count otherwise; the count is
\* positive only when nobody waits; an acquire() that takes a permit at once
\* does so only when nobody waits, so it never takes a waiter's permit.
C31_ReleaseHandsOver ==
    /\ [](permits > 0 => queue = <<>>)
    /\ [][\A r \in AllRequests :
            rel'[r] # rel[r]
                => IF queue # <<>>
                     THEN /\ permits' = permits
                          /\ queue' = Tail(queue)
                          /\ acq'[Head(queue)] = acq[Head(queue)] + 1
                          /\ \A w \in AllRequests \ {Head(queue)} : acq'[w] = acq[w]
                     ELSE /\ permits' = permits + 1
                          /\ queue' = queue
                          /\ acq' = acq]_vars
    /\ [][\A r \in AllRequests :
            (pc[r] = "idle" /\ pc'[r] = "getBrowser")
                => (queue = <<>> /\ permits' = permits - 1)]_vars

\* C31 witness: a release handed its permit to the oldest waiter while another
\* caller waits, and the count stayed at zero.
C31_HandedOver ==
    /\ permits = 0
    /\ queue # <<>>
    /\ \E h \in GateHolders : rel[h] = 1
    /\ \E r \in waited : acq[r] = 1 /\ rel[r] = 0

\* C32: createContext acquires a permit, then obtains the handle, then creates
\* the context: a caller that is in getBrowser(), for which a browser is being
\* closed or launched, or for which a context is being created, holds a permit,
\* and each of these steps starts from the step before it.
C32_PermitFirst ==
    /\ [](\A r \in AllRequests :
             pc[r] \in {"getBrowser", "waitLock", "closeStale", "launching", "newContext"}
                 => r \in Holders)
    /\ [][\A r \in AllRequests :
            /\ (pc'[r] = "getBrowser" /\ pc[r] # "getBrowser")
                  => (pc[r] \in {"idle", "waitSem"} /\ acq'[r] = acq[r] + 1)
            /\ (pc'[r] = "waitLock" /\ pc[r] # "waitLock") => pc[r] = "getBrowser"
            /\ (pc'[r] = "launching" /\ pc[r] # "launching")
                  => pc[r] \in {"waitLock", "closeStale"}
            /\ (pc'[r] = "newContext" /\ pc[r] # "newContext")
                  => pc[r] \in {"waitLock", "launching"}
            /\ (r \in ctxOpen' \ ctxOpen) => (pc[r] = "newContext" /\ r \in Holders)]_vars
    /\ [][launched' # launched
            => \E r \in Holders : pc[r] = "launching" /\ pc'[r] = "newContext"]_vars

\* C32 witness: a caller that was suspended in acquire() holds its permit and
\* has a browser launch in flight.
C32_LaunchAfterWait ==
    \E r \in waited : pc[r] = "launching" /\ acq[r] = 1 /\ rel[r] = 0

\* C33: a getBrowser() call that finds a handle that is not connected starts
\* the close of that handle before it starts the launch; when that close
\* fails, the launch is started all the same and the error does not reach the
\* caller, who gets the handle that is launched.
C33_StaleCloseBestEffort ==
    /\ [][\A r \in AllRequests :
            /\ (pc[r] = "waitLock" /\ pc'[r] # "waitLock" /\ browser # NoBrowser
                    /\ browser \notin connected) => pc'[r] = "closeStale"
            /\ (pc[r] = "waitLock" /\ pc'[r] = "launching") => browser = NoBrowser
            /\ (pc[r] = "closeStale" /\ pc'[r] # "closeStale")
                  => (pc'[r] = "launching" /\ outcome'[r] = "none" /\ r \in Holders')]_vars
    /\ [](\A r \in swallowed : outcome[r] # "staleClose")
    /\ [][\A r \in AllRequests :
            (r \in swallowed /\ pc[r] = "launching" /\ pc'[r] = "newContext")
                => (hnd'[r] = launched' /\ launched' = launched + 1)]_vars

\* C33 witness: the close of the stale handle 1 failed in a getBrowser() call,
\* which launched handle 2, and its caller has a context.
C33_LaunchedAfterFailedClose ==
    \E r \in swallowed : r \in ctxOpen /\ launched = 2 /\ browser = 2

\* C34: when a launch fails, the getBrowser() call ends there: no other launch
\* is made for it, its caller gets the error, the serialized region is left,
\* the handle stays absent, and a later getBrowser() call finds the region
\* free and the handle absent, so that it launches.
C34_LaunchFailureFinal ==
    /\ [][\A r \in AllRequests :
            (pc[r] = "launching" /\ pc'[r] \notin {"launching", "newContext"})
                => /\ pc'[r] = "done"
                   /\ outcome'[r] = "launch"
                   /\ browser = NoBrowser /\ browser' = NoBrowser
                   /\ launched' = launched
                   /\ lockQueue' = Tail(lockQueue)
                   /\ hnd'[r] = NoBrowser]_vars
    /\ [](\A r \in AllRequests :
             outcome[r] = "launch"
                 => /\ pc[r] = "done"
                    /\ \A i \in 1..Len(lockQueue) : lockQueue[i] # r)
    /\ [][\A r \in AllRequests :
            (pc[r] = "waitLock" /\ pc'[r] # "waitLock" /\ browser = NoBrowser)
                => pc'[r] = "launching"]_vars

\* C34 witness: a launch failed for one caller, and a later getBrowser() call
\* launched the browser.
C34_LaunchedAfterFailure ==
    \E r, q \in AllRequests :
        /\ outcome[r] = "launch"
        /\ r < q
        /\ launched = 1
        /\ pc[q] = "newContext" /\ hnd[q] = 1

\* C35: in screenshot_capture without script a request for format webp (asked
\* for or by default) is captured with type png and its capture is not
\* rejected because of the format; the capture is given a quality for every
\* format but png, and none for png.
C35_WebpCapturedAsPng ==
    LET format == orFormat(shot.format, shot.defaultFormat)
    IN shot.phase \in {"options", "captured", "rejected"}
         => /\ format = "webp" => shot.options.type = "png"
            /\ format # "png" <=> shot.options.quality # 0
            /\ (shot.phase = "rejected" /\ format = "webp") => shot.error = "capture failed"

\* C36: when every context that is created is closed in the end, every
\* acquire() that was suspended completes in the end, whatever the order in
\* which the createContext calls arrive.
C36_NoWaiterStarves ==
    \A r \in GateRequests : (pc[r] = "waitSem") ~> (acq[r] = 1)

\* C36 witness: a caller was suspended in acquire() while all the permits were
\* out, and it has got its permit and its context.
C36_WaiterServed ==
    \E r \in waited : acq[r] = 1 /\ r \in ctxOpen /\ permits = 0

\* C37: when every launch and every close of a browser terminates, every
\* getBrowser() call returns or throws in the end: the serialized region is
\* left on every way out, a failed launch included, it is entered in the order
\* of the calls, and only the call at its head closes or launches a browser.
C37_GetBrowserTerminates ==
    /\ [][\A r \in AllRequests :
            (pc[r] = "waitLock" /\ pc'[r] # "waitLock") => Head(lockQueue) = r]_vars
    /\ [][\A r \in AllRequests :
            (pc[r] \in {"waitLock", "closeStale", "launching"}
                 /\ pc'[r] \in {"newContext", "done"})
                => (Head(lockQueue) = r /\ lockQueue' = Tail(lockQueue))]_vars
    /\ [](\A i \in 1..Len(lockQueue) :
             /\ pc[lockQueue[i]] \in {"waitLock", "closeStale", "launching"}
             /\ i > 1 => pc[lockQueue[i]] = "waitLock"
             /\ \A j \in 1..Len(lockQueue) : i < j => lockQueue[i] < lockQueue[j])
    /\ \A r \in 1..NumWatchRequests :
           (pc[r] \in {"getBrowser", "waitLock", "closeStale", "launching"})
               ~> (pc[r] \in {"newContext", "page", "capture", "closing", "done"})

\* C37 witness: the launch of one getBrowser() call failed, and the call
\* after it is in the region, launching.
C37_RegionFreeAfterFailure ==
    \E r, q \in 1..NumWatchRequests :
        /\ r < q
        /\ outcome[r] = "launch"
        /\ pc[q] = "launching"
        /\ lockQueue = <<q>>

\* C38: a request that fails one of the handler's checks (project root, url,
\* output path) ends there: it acquires no permit, launches no browser and
\* creates no context, and the gate and the browser handle are as they were.
C38_InvalidRequestLeavesNoTrace ==
    /\ [][\A r \in 1..NumWatchRequests, t \in Tools, root \in CallRoots, u \in CallUrls,
             o \in CallPaths :
            (HandlerCall(r, t, root, u, o)
                 /\ (Len(root) = 0 \/ validateUrl(u) # ""
                        \/ (t \in PathTools /\ validateOutputPath(o, root).error # "")))
                => /\ pc'[r] = "done"
                   /\ outcome'[r] \in {"projectRoot", "url", "outputPath"}
                   /\ UNCHANGED <<permits, queue, browser, lockQueue, launched, connected,
                                  ctxOpen, acq, rel, waited>>]_vars
    /\ [](\A r \in AllRequests :
             outcome[r] \in {"projectRoot", "url", "outputPath"}
                 => (pc[r] = "done" /\ acq[r] = 0 /\ rel[r] = 0 /\ r \notin ctxOpen))
    /\ [](permits + Cardinality(Holders) = MAX_CONCURRENT_CONTEXTS)

\* C38 witness: a request was refused for its output path while another
\* request holds a permit and a context.
C38_RefusedBesideHolder ==
    \E r, q \in AllRequests :
        /\ outcome[r] = "outputPath"
        /\ q \in ctxOpen
        /\ permits = MAX_CONCURRENT_CONTEXTS - 1

\* C39: in the screenshot tools a directory is created and a file is written
\* for a request only after its screenshot buffer was obtained: a request that
\* fails in navigation, in a wait, in the script or in the check of the
\* capture's kind leaves the file system as it was.
C39_NoWriteWithoutBuffer ==
    \A r \in ToolRequests :
        /\ (r \in disk.dirs \cup disk.files \cup disk.others)
               => (tool[r] \in PathTools /\ outcome[r] \in {"ok", "save", "close"})
        /\ outcome[r] \in {"navigation", "capture", "runtime", "timeout", "nocapture",
                           "mismatch"}
               => r \notin disk.dirs \cup disk.files \cup disk.others

====
